---------------------------- MODULE Spec2Model ----------------------------
(***************************************************************************)
(* Model of src_to_class (src/src/main.rs): for every .java file of a      *)
(* source tree, find the .class files of the class tree that belong to it, *)
(* copy them and the non-Java files to an output directory, and read the   *)
(* class file version of every copied class file.                          *)
(*                                                                         *)
(* A file name is a sequence of one-character strings, a path a sequence   *)
(* of file names, a file's content a sequence of bytes (0..255).  A        *)
(* character outside ASCII is written as its code point, "U+672A".         *)
(* The file system is assumed readable: no I/O call fails for a reason     *)
(* other than a missing path or a file shorter than the bytes asked for.   *)
(***************************************************************************)
EXTENDS Integers, Sequences, FiniteSets, TLC

VARIABLES
    fs,                     \* the file system: [dirs, files, rev]
    pc,                     \* position of main / of the function under call
    arg,                    \* argument of the function under call
    ret,                    \* its return value
    java_files,             \* main: line 82
    non_java_files,         \* main: line 82
    idx,                    \* index of the running for loop
    failed,                 \* main: line 86
    source_to_classes,      \* main: line 89
    jdk_versions,           \* main: line 112
    copied_non_java_files,  \* main: line 116
    copied_files,           \* main: line 149
    cur,                    \* the entry of source_to_classes the copy loop is in
    stdout,                 \* the report lines printed by lines 133 and 189
    log,                    \* the records written through error!/warn!/info!
    outcome                 \* "running", "ok" (Ok(())) or "error" (Err)

vars == <<fs, pc, arg, ret, java_files, non_java_files, idx, failed,
          source_to_classes, jdk_versions, copied_non_java_files,
          copied_files, cur, stdout, log, outcome>>

mainVars == <<java_files, non_java_files, idx, failed, source_to_classes,
              jdk_versions, copied_non_java_files, copied_files, cur,
              stdout, log, outcome>>

---------------------------------------------------------------------------
(* Sequences, strings and integers                                         *)

\* Option<T>: a sequence of no element (None) or of one (Some)
None == <<>>
Some(x) == <<x>>

Range(s) == {s[i] : i \in 1..Len(s)}

\* Result<T, E>
Ok(v)  == [ok |-> TRUE, val |-> v]
Err(e) == [ok |-> FALSE, err |-> e]

RECURSIVE Reverse(_)
Reverse(s) == IF s = <<>> THEN <<>> ELSE Reverse(Tail(s)) \o <<Head(s)>>

\* str::starts_with
starts_with(s, prefix) ==
    /\ Len(prefix) <= Len(s)
    /\ SubSeq(s, 1, Len(prefix)) = prefix

\* `|` on two u16 values, bit by bit
RECURSIVE BitOr(_, _)
BitOr(a, b) ==
    IF a = 0 THEN b
    ELSE IF b = 0 THEN a
    ELSE (IF a % 2 = 1 \/ b % 2 = 1 THEN 1 ELSE 0) + 2 * BitOr(a \div 2, b \div 2)

U16 == 65536

\* (b as u16) << 8
Shl8(b) == (b * 256) % U16

Digit == <<"0", "1", "2", "3", "4", "5", "6", "7", "8", "9">>

\* Display of an unsigned integer, as format!("{}") prints it
RECURSIVE Decimal(_)
Decimal(n) ==
    IF n < 10 THEN <<Digit[n + 1]>>
    ELSE Decimal(n \div 10) \o <<Digit[(n % 10) + 1]>>

---------------------------------------------------------------------------
(* std::path                                                               *)

Dot == "."

\* the index of the last "." of a name, 0 when it has none
RECURSIVE LastDot(_)
LastDot(name) ==
    IF name = <<>> THEN 0
    ELSE IF name[Len(name)] = Dot THEN Len(name)
    ELSE LastDot(SubSeq(name, 1, Len(name) - 1))

\* Path::file_name: the last component
file_name(path) == IF path = <<>> THEN None ELSE Some(path[Len(path)])

\* Path::file_stem: the name up to its last ".", the whole name when it has
\* no "." or only a leading one
file_stem(path) ==
    IF file_name(path) = None THEN None
    ELSE LET name == file_name(path)[1]
             d    == LastDot(name)
         IN  IF d <= 1 THEN Some(name) ELSE Some(SubSeq(name, 1, d - 1))

\* Path::extension: what follows the last ".", None when the name has no "."
\* or only a leading one
extension(path) ==
    IF file_name(path) = None THEN None
    ELSE LET name == file_name(path)[1]
             d    == LastDot(name)
         IN  IF d <= 1 THEN None ELSE Some(SubSeq(name, d + 1, Len(name)))

\* Path::parent
parent(path) ==
    IF path = <<>> THEN None ELSE Some(SubSeq(path, 1, Len(path) - 1))

\* Path::join of a relative path
join(base, rel) == base \o rel

\* Path::strip_prefix
strip_prefix(path, base) ==
    IF starts_with(path, base)
    THEN Ok(SubSeq(path, Len(base) + 1, Len(path)))
    ELSE Err("StripPrefixError")

---------------------------------------------------------------------------
(* JavaClassVersion                                                        *)

JDK(tail) == <<"J", "D", "K", " ">> \o tail

\* "未知JDK版本 (major: "
UnknownJdkPrefix ==
    <<"U+672A", "U+77E5", "J", "D", "K", "U+7248", "U+672C",
      " ", "(", "m", "a", "j", "o", "r", ":", " ">>

to_jdk_version_off_by_one(version) ==
    LET m == version.major IN
    IF m = 45 THEN JDK(<<"1", ".", "1">>)
    ELSE IF m = 46 THEN JDK(<<"1", ".", "2">>)
    ELSE IF m = 47 THEN JDK(<<"1", ".", "3">>)
    ELSE IF m = 48 THEN JDK(<<"1", ".", "4">>)
    ELSE IF m >= 49 /\ m <= 66 THEN JDK(Decimal(m - 44))
    ELSE UnknownJdkPrefix \o Decimal(m) \o <<")">>

to_jdk_version(version) ==
    LET m == version.major IN
    CASE m = 45 -> JDK(<<"1", ".", "1">>)
      [] m = 46 -> JDK(<<"1", ".", "2">>)
      [] m = 47 -> JDK(<<"1", ".", "3">>)
      [] m = 48 -> JDK(<<"1", ".", "4">>)
      [] m = 49 -> JDK(<<"5">>)
      [] m = 50 -> JDK(<<"6">>)
      [] m = 51 -> JDK(<<"7">>)
      [] m = 52 -> JDK(<<"8">>)
      [] m = 53 -> JDK(<<"9">>)
      [] m = 54 -> JDK(<<"1", "0">>)
      [] m = 55 -> JDK(<<"1", "1">>)
      [] m = 56 -> JDK(<<"1", "2">>)
      [] m = 57 -> JDK(<<"1", "3">>)
      [] m = 58 -> JDK(<<"1", "4">>)
      [] m = 59 -> JDK(<<"1", "5">>)
      [] m = 60 -> JDK(<<"1", "6">>)
      [] m = 61 -> JDK(<<"1", "7">>)
      [] m = 62 -> JDK(<<"1", "8">>)
      [] m = 63 -> JDK(<<"1", "9">>)
      [] m = 64 -> JDK(<<"2", "0">>)
      [] m = 65 -> JDK(<<"2", "1">>)
      [] OTHER  -> UnknownJdkPrefix \o Decimal(m) \o <<")">>

---------------------------------------------------------------------------
(* read_class_file_version                                                 *)

\* the failures of read_class_file_version, by the call that fails
ErrOpen      == "File::open"
ErrReadExact == "read_exact"
ErrMagic     == "magic"

Magic == <<202, 254, 186, 190>>     \* 0xCA 0xFE 0xBA 0xBE

read_class_file_version_swapped(files, path) ==
    IF path \notin DOMAIN files THEN Err(ErrOpen)
    ELSE IF Len(files[path]) < 8 THEN Err(ErrReadExact)
    ELSE LET buffer == SubSeq(files[path], 1, 8) IN
         IF SubSeq(buffer, 1, 4) # Magic THEN Err(ErrMagic)
         ELSE Ok([major |-> BitOr(Shl8(buffer[5]), buffer[6]),
                  minor |-> BitOr(Shl8(buffer[7]), buffer[8])])

read_class_file_version_magic_first(files, path) ==
    IF path \notin DOMAIN files THEN Err(ErrOpen)
    ELSE IF /\ Len(files[path]) >= 4
            /\ SubSeq(files[path], 1, 4) # Magic THEN Err(ErrMagic)
    ELSE IF Len(files[path]) < 8 THEN Err(ErrReadExact)
    ELSE LET buffer == SubSeq(files[path], 1, 8) IN
         Ok([major |-> BitOr(Shl8(buffer[7]), buffer[8]),
             minor |-> BitOr(Shl8(buffer[5]), buffer[6])])

read_class_file_version(files, path) ==
    IF path \notin DOMAIN files THEN Err(ErrOpen)
    ELSE IF Len(files[path]) < 8 THEN Err(ErrReadExact)
    ELSE LET buffer == SubSeq(files[path], 1, 8) IN
         IF \/ buffer[1] # 202 \/ buffer[2] # 254
            \/ buffer[3] # 186 \/ buffer[4] # 190 THEN Err(ErrMagic)
         ELSE Ok([major |-> BitOr(Shl8(buffer[7]), buffer[8]),
                  minor |-> BitOr(Shl8(buffer[5]), buffer[6])])

---------------------------------------------------------------------------
(* The file system, std::fs and walkdir                                    *)

\* fs.dirs: the directories; fs.files: the regular files, path -> bytes;
\* fs.rev: whether directories enumerate in reverse of NameOrder

JavaExt  == <<"j", "a", "v", "a">>
ClassExt == <<"c", "l", "a", "s", "s">>
Dollar   == "$"

Name(stem, ext) == stem \o <<Dot>> \o ext

\* the stems and directory names of the model
sA   == <<"A">>
sA1  == <<"A", "$", "1">>
sAB  == <<"A", "$", "B">>
sAo  == <<"A", "B">>
sC   == <<"C">>
pkg  == <<"p", "k", "g">>
q    == <<"q">>
sub  == <<"s", "u", "b">>

\* every file name of the model, in the order directories enumerate
NameOrder ==
    << pkg, q, sub, sA,
       Name(sA, ClassExt), Name(sA, JavaExt), Name(sA, <<"t", "x", "t">>),
       Name(sA, <<"J", "A", "V", "A">>), Name(sA, <<"C", "L", "A", "S", "S">>),
       Name(sA1, ClassExt), Name(<<"A", "$", "2">>, ClassExt),
       Name(sAB, ClassExt), Name(sAB, JavaExt),
       Name(sAo, ClassExt), Name(sAo, JavaExt),
       Name(sC, ClassExt), Name(sC, JavaExt),
       Name(<<"r">>, <<"t", "x", "t">>), Name(<<>>, ClassExt) >>

\* the command line: Opt
opt == [ source_dir |-> << <<"s", "r", "c">> >>,
         class_dir  |-> << <<"c", "l", "s">> >>,
         output_dir |-> << <<"o", "u", "t">> >> ]

is_file(f, path) == path \in DOMAIN f.files
is_dir(f, path)  == path \in f.dirs
exists(f, path)  == is_file(f, path) \/ is_dir(f, path)

\* the entries of a directory, in the order the file system enumerates them
read_dir(f, dir) ==
    LET order == IF f.rev THEN Reverse(NameOrder) ELSE NameOrder
        here(n) == exists(f, dir \o <<n>>)
        names == SelectSeq(order, here)
    IN  [i \in 1..Len(names) |-> dir \o <<names[i]>>]

\* WalkDir::new(root).max_depth(depth): the root, then, depth first, what is
\* below it down to `depth` levels; depth -1 stands for no max_depth
RECURSIVE WalkDir(_, _, _)
RECURSIVE WalkAll(_, _, _)
WalkAll(f, paths, depth) ==
    IF paths = <<>> THEN <<>>
    ELSE WalkDir(f, Head(paths), depth) \o WalkAll(f, Tail(paths), depth)

WalkDir(f, root, depth) ==
    <<root>> \o
    (IF is_dir(f, root) /\ depth # 0
     THEN WalkAll(f, read_dir(f, root), depth - 1)
     ELSE <<>>)

\* every ancestor directory of a path, the path itself left out
Ancestors(path) == {SubSeq(path, 1, k) : k \in 1..(Len(path) - 1)}

\* fs::create_dir_all
create_dir_all(f, dir) ==
    [f EXCEPT !.dirs = @ \cup Ancestors(dir) \cup {dir}]

\* fs::copy: the target gets the bytes of the source
fs_copy(f, from, to) ==
    [f EXCEPT !.files = [p \in (DOMAIN @) \cup {to} |->
                            IF p = to THEN f.files[from] ELSE f.files[p]]]

---------------------------------------------------------------------------
(* collect_source_files and find_class_files                               *)

collect_source_files(f, source_dir) ==
    LET walk == WalkDir(f, source_dir, -1)
        java(p)  == is_file(f, p) /\ extension(p) = Some(JavaExt)
        other(p) == is_file(f, p) /\ extension(p) # Some(JavaExt)
    IN  <<SelectSeq(walk, java), SelectSeq(walk, other)>>

find_class_files_plain_prefix(f, class_dir, java_rel_path) ==
    LET class_base_name == file_stem(java_rel_path)[1]
        dir == join(class_dir, parent(java_rel_path)[1])
        match(p) ==
            /\ is_file(f, p)
            /\ extension(p) = Some(ClassExt)
            /\ starts_with(file_stem(p)[1], class_base_name)
    IN  IF ~exists(f, dir) THEN Ok(<<>>)
        ELSE Ok(SelectSeq(WalkDir(f, dir, 1), match))

find_class_files_missing_dir_fails(f, class_dir, java_rel_path) ==
    LET class_base_name == file_stem(java_rel_path)[1]
        dir == join(class_dir, parent(java_rel_path)[1])
        match(p) ==
            /\ is_file(f, p)
            /\ extension(p) = Some(ClassExt)
            /\ \/ file_stem(p)[1] = class_base_name
               \/ starts_with(file_stem(p)[1], class_base_name \o <<Dollar>>)
    IN  IF ~exists(f, dir) THEN Err("WalkDir")
        ELSE Ok(SelectSeq(WalkDir(f, dir, 1), match))

find_class_files(f, class_dir, java_rel_path) ==
    LET java_file_name == file_stem(java_rel_path)
        package_path ==
            IF parent(java_rel_path) = None THEN <<>>
            ELSE parent(java_rel_path)[1]
        class_dir_with_package == join(class_dir, package_path)
        class_base_name == java_file_name[1]
        match(path) ==
            /\ is_file(f, path)
            /\ extension(path) = Some(ClassExt)
            /\ LET file_name_ == file_stem(path)[1] IN
               \/ file_name_ = class_base_name
               \/ starts_with(file_name_, class_base_name \o <<Dollar>>)
    IN  IF java_file_name = None THEN Err("file_stem")
        ELSE IF ~exists(f, class_dir_with_package) THEN Ok(<<>>)
        ELSE Ok(SelectSeq(WalkDir(f, class_dir_with_package, 1), match))

---------------------------------------------------------------------------
(* The inputs of the model                                                 *)

\* the greatest length of a class file
MaxFileLen == 9
\* the greatest number of entries of a class tree under find_class_files
MaxEntries == 4
\* the greatest number of non-Java files of a source tree
MaxOther == 2

Min(a, b) == IF a < b THEN a ELSE b

\* the file system holding the files srcFiles (relative path -> bytes) under
\* opt.source_dir, clsFiles and the directories clsDirs under opt.class_dir
FsOf(srcFiles, clsFiles, clsDirs, rev) ==
    LET src == {join(opt.source_dir, r) : r \in DOMAIN srcFiles}
        cls == {join(opt.class_dir, r) : r \in DOMAIN clsFiles}
        dir == {join(opt.class_dir, r) : r \in clsDirs}
    IN  [ dirs  |-> {opt.source_dir, opt.class_dir} \cup dir
                    \cup UNION {Ancestors(p) : p \in src \cup cls \cup dir},
          files |-> [p \in src \cup cls |->
                        IF p \in src
                        THEN srcFiles[strip_prefix(p, opt.source_dir).val]
                        ELSE clsFiles[strip_prefix(p, opt.class_dir).val]],
          rev   |-> rev ]

\* a class file header: the magic number, minor version 0, the major version
Header(major) == Magic \o <<0, 0, major \div 256, major % 256>>

\* main's variables while a single function is under call
MainIdle ==
    /\ java_files = <<>>
    /\ non_java_files = <<>>
    /\ idx = 0
    /\ failed = FALSE
    /\ source_to_classes = <<>>
    /\ jdk_versions = <<>>
    /\ copied_non_java_files = 0
    /\ copied_files = 0
    /\ cur = <<>>
    /\ stdout = <<>>
    /\ log = <<>>
    /\ outcome = "running"

NoRet == [ok |-> FALSE, err |-> "not returned"]

---------------------------------------------------------------------------
(* JavaClassVersion::to_jdk_version under call                             *)

MinorSamples == {0, 3}

LabelInit ==
    /\ pc = "call"
    /\ arg \in [major : 0..(U16 - 1), minor : MinorSamples]
    /\ ret = NoRet
    /\ fs = FsOf(<<>>, <<>>, {}, FALSE)
    /\ MainIdle

LabelCall ==
    /\ pc = "call"
    /\ ret' = to_jdk_version(arg)
    /\ pc' = "return"
    /\ UNCHANGED <<fs, arg, mainVars>>

SpecLabel == LabelInit /\ [][LabelCall]_vars

---------------------------------------------------------------------------
(* read_class_file_version under call                                      *)

MagicSamples ==
    { Magic, <<203, 254, 186, 190>>, <<202, 255, 186, 190>>,
      <<202, 254, 187, 190>>, <<202, 254, 186, 191>>,
      <<190, 186, 254, 202>>, <<0, 0, 0, 0>> }

ByteSamples == {0, 3, 52, 231, 255}

TrailSamples == {0, 255}

Headers8 ==
    {m \o v : m \in MagicSamples, v \in [1..4 -> ByteSamples]}

Trails == UNION {[1..n -> TrailSamples] : n \in 0..(MaxFileLen - 8)}

DecodeFiles ==
    {SubSeq(h, 1, n) : h \in Headers8, n \in 0..7}
        \cup {h \o t : h \in Headers8, t \in Trails}

pA == <<pkg, Name(sA, ClassExt)>>

DecodeInit ==
    /\ pc = "call"
    /\ \E bytes \in DecodeFiles :
           fs = FsOf(<<>>, [r \in {pA} |-> bytes], {}, FALSE)
    /\ arg \in {join(opt.class_dir, pA),
                join(opt.class_dir, <<pkg, Name(sA1, ClassExt)>>)}
    /\ ret = NoRet
    /\ MainIdle

DecodeCall ==
    /\ pc = "call"
    /\ ret' = read_class_file_version(fs.files, arg)
    /\ pc' = "return"
    /\ UNCHANGED <<fs, arg, mainVars>>

SpecDecode == DecodeInit /\ [][DecodeCall]_vars

---------------------------------------------------------------------------
(* find_class_files under call                                             *)

\* the entries a class tree is drawn from, relative to opt.class_dir
ClassFileUniverse ==
    { <<pkg, Name(sA, ClassExt)>>, <<pkg, Name(sA1, ClassExt)>>,
      <<pkg, Name(sAB, ClassExt)>>, <<pkg, Name(sAo, ClassExt)>>,
      <<pkg, Name(sA, <<"t", "x", "t">>)>>,
      <<pkg, Name(sA, <<"C", "L", "A", "S", "S">>)>>,
      <<pkg, sA>>, <<pkg, Name(<<>>, ClassExt)>>,
      <<pkg, sub, Name(sA, ClassExt)>>,
      <<Name(sA, ClassExt)>>, <<q, Name(sC, ClassExt)>> }

ClassDirUniverse ==
    { <<pkg>>, <<pkg, sub>>, <<pkg, Name(<<"A", "$", "2">>, ClassExt)>> }

\* the source units find_class_files is called with
UnitUniverse ==
    { <<pkg, Name(sA, JavaExt)>>, <<pkg, Name(sAB, JavaExt)>>,
      <<pkg, Name(sAo, JavaExt)>>, <<q, Name(sC, JavaExt)>>,
      <<Name(sA, JavaExt)>>, <<pkg, sub, Name(sA, JavaExt)>> }

ResolveInit ==
    /\ pc = "call"
    /\ \E files \in SUBSET ClassFileUniverse, dirs \in SUBSET ClassDirUniverse,
          rev \in BOOLEAN :
           /\ Cardinality(files) + Cardinality(dirs) <= MaxEntries
           /\ fs = FsOf(<<>>, [r \in files |-> Header(52)], dirs, rev)
    /\ arg \in UnitUniverse
    /\ ret = NoRet
    /\ MainIdle

ResolveCall ==
    /\ pc = "call"
    /\ ret' = find_class_files(fs, opt.class_dir, arg)
    /\ pc' = "return"
    /\ UNCHANGED <<fs, arg, mainVars>>

SpecResolve == ResolveInit /\ [][ResolveCall]_vars

---------------------------------------------------------------------------
(* main                                                                    *)

\* "未知版本"
UnknownVersion == <<"U+672A", "U+77E5", "U+7248", "U+672C">>

BadMagic  == <<0, 0, 0, 0, 0, 0, 0, 52>>
Truncated == Magic

\* what a class file of a run holds
Contents == {Header(52), Header(55), BadMagic, Truncated}

\* the source units and the non-Java files a source tree is drawn from
RunUnits ==
    { <<pkg, Name(sA, JavaExt)>>, <<pkg, Name(sAB, JavaExt)>>,
      <<q, Name(sC, JavaExt)>> }

OtherList ==
    << <<Name(<<"r">>, <<"t", "x", "t">>)>>,
       <<pkg, Name(sA, <<"t", "x", "t">>)>>,
       <<pkg, Name(sA, <<"J", "A", "V", "A">>)>> >>

\* the class files a class tree is drawn from, and those every tree holds
RunClasses ==
    { <<pkg, Name(sA, ClassExt)>>, <<pkg, Name(sA1, ClassExt)>>,
      <<pkg, Name(sAB, ClassExt)>> }

FixedClasses ==
    { <<pkg, Name(sAo, ClassExt)>>, <<pkg, sub, Name(sA, ClassExt)>>,
      <<pkg, Name(sA, <<"t", "x", "t">>)>> }

qC == <<q, Name(sC, ClassExt)>>

SourceTree(units, k) ==
    [r \in units \cup {OtherList[i] : i \in 1..k} |-> <<1, 2, 3>>]

\* the class files a tree holds beside those of RunClasses
Extras == {{}, FixedClasses, FixedClasses \cup {qC}}

ClassTree(content, extra) ==
    [r \in DOMAIN content \cup extra
        |-> IF r \in DOMAIN content THEN content[r]
            ELSE IF r = qC THEN Header(61) ELSE Header(50)]

RunFileSystems ==
    { FsOf(SourceTree(units, k), ClassTree(content, extra), {}, rev) :
        units \in SUBSET RunUnits,
        k \in 0..Min(MaxOther, Len(OtherList)),
        content \in UNION {[present -> Contents] : present \in SUBSET RunClasses},
        extra \in Extras,
        rev \in BOOLEAN }
    \cup
    { [dirs |-> {opt.class_dir}, files |-> <<>>, rev |-> FALSE],
      [dirs |-> {opt.source_dir}, files |-> <<>>, rev |-> FALSE] }

Init ==
    /\ pc = "main"
    /\ fs \in RunFileSystems
    /\ arg = <<>>
    /\ ret = NoRet
    /\ MainIdle

Put(map, key, value) ==
    [k \in DOMAIN map \cup {key} |-> IF k = key THEN value ELSE map[k]]

\* lines 64-83: the checks of the command line and collect_source_files
MainStart ==
    /\ pc = "main"
    /\ IF ~exists(fs, opt.source_dir) \/ ~exists(fs, opt.class_dir)
       THEN /\ outcome' = "error"
            /\ pc' = "done"
            /\ UNCHANGED <<fs, java_files, non_java_files, idx, log>>
       ELSE LET found == collect_source_files(fs, opt.source_dir) IN
            /\ fs' = IF exists(fs, opt.output_dir) THEN fs
                     ELSE create_dir_all(fs, opt.output_dir)
            /\ java_files' = found[1]
            /\ non_java_files' = found[2]
            /\ log' = Append(log, [level |-> "info",
                                   java |-> Len(found[1]),
                                   other |-> Len(found[2])])
            /\ idx' = 1
            /\ pc' = "resolve"
            /\ UNCHANGED outcome
    /\ UNCHANGED <<arg, ret, failed, source_to_classes, jdk_versions,
                   copied_non_java_files, copied_files, cur, stdout>>

ResolveStep_skip_unmatched ==
    /\ pc = "resolve"
    /\ ~failed
    /\ idx <= Len(java_files)
    /\ LET java_rel_path == strip_prefix(java_files[idx], opt.source_dir).val
           class_files == find_class_files(fs, opt.class_dir, java_rel_path)
       IN  /\ source_to_classes' =
                IF class_files.val = <<>> THEN source_to_classes
                ELSE Put(source_to_classes, java_rel_path, class_files.val)
           /\ idx' = idx + 1
    /\ UNCHANGED <<fs, pc, arg, ret, java_files, non_java_files, failed,
                   jdk_versions, copied_non_java_files, copied_files, cur,
                   stdout, log, outcome>>

\* lines 91-104: one iteration of the loop over java_files
ResolveStep ==
    /\ pc = "resolve"
    /\ ~failed
    /\ idx <= Len(java_files)
    /\ LET java_file == java_files[idx]
           java_rel_path == strip_prefix(java_file, opt.source_dir)
           class_files ==
               find_class_files(fs, opt.class_dir, java_rel_path.val)
       IN  IF ~java_rel_path.ok \/ ~class_files.ok
           THEN /\ outcome' = "error"
                /\ pc' = "done"
                /\ UNCHANGED <<failed, source_to_classes, idx, log>>
           ELSE IF class_files.val = <<>>
           THEN /\ log' = Append(log, [level |-> "error",
                                       path |-> java_rel_path.val])
                /\ failed' = TRUE
                /\ UNCHANGED <<source_to_classes, idx, pc, outcome>>
           ELSE /\ source_to_classes' =
                    Put(source_to_classes, java_rel_path.val, class_files.val)
                /\ idx' = idx + 1
                /\ UNCHANGED <<failed, log, pc, outcome>>
    /\ UNCHANGED <<fs, arg, ret, java_files, non_java_files, jdk_versions,
                   copied_non_java_files, copied_files, cur, stdout>>

\* lines 106-116: after the loop, bail when a unit had no class file
AfterResolve ==
    /\ pc = "resolve"
    /\ failed \/ idx > Len(java_files)
    /\ IF failed
       THEN /\ outcome' = "error"
            /\ pc' = "done"
            /\ UNCHANGED <<idx, jdk_versions, copied_non_java_files>>
       ELSE /\ jdk_versions' = <<>>
            /\ copied_non_java_files' = 0
            /\ idx' = 1
            /\ pc' = "copyNonJava"
            /\ UNCHANGED outcome
    /\ UNCHANGED <<fs, arg, ret, java_files, non_java_files, failed,
                   source_to_classes, copied_files, cur, stdout, log>>

\* lines 118-140: one iteration of the loop over non_java_files
CopyNonJava ==
    /\ pc = "copyNonJava"
    /\ idx <= Len(non_java_files)
    /\ LET non_java_file == non_java_files[idx]
           rel_path == strip_prefix(non_java_file, opt.source_dir).val
           target_path == join(opt.output_dir, rel_path)
           made == IF parent(target_path) = None THEN fs
                   ELSE create_dir_all(fs, parent(target_path)[1])
           file_size == Len(fs.files[non_java_file])
       IN  /\ stdout' = Append(stdout, [kind |-> "non-java",
                                        path |-> rel_path,
                                        size |-> file_size])
           /\ fs' = fs_copy(made, non_java_file, target_path)
           /\ copied_non_java_files' = copied_non_java_files + 1
           /\ idx' = idx + 1
    /\ UNCHANGED <<pc, arg, ret, java_files, non_java_files, failed,
                   source_to_classes, jdk_versions, copied_files, cur, log,
                   outcome>>

\* lines 142-149: between the two copy loops
StartClassCopy ==
    /\ pc = "copyNonJava"
    /\ idx > Len(non_java_files)
    /\ copied_files' = 0
    /\ cur' = [done |-> {}, unit |-> None, rest |-> <<>>]
    /\ pc' = "copyClass"
    /\ UNCHANGED <<fs, arg, ret, java_files, non_java_files, idx, failed,
                   source_to_classes, jdk_versions, copied_non_java_files,
                   stdout, log, outcome>>

\* lines 151-153: the loop over source_to_classes takes its next entry, in
\* the order the HashMap iterates, which is any order
NextUnit ==
    /\ pc = "copyClass"
    /\ cur.rest = <<>>
    /\ \E java_rel_path \in DOMAIN source_to_classes \ cur.done :
           cur' = [done |-> cur.done \cup {java_rel_path},
                   unit |-> Some(java_rel_path),
                   rest |-> source_to_classes[java_rel_path]]
    /\ UNCHANGED <<fs, pc, arg, ret, java_files, non_java_files, idx, failed,
                   source_to_classes, jdk_versions, copied_non_java_files,
                   copied_files, stdout, log, outcome>>

CopyClassFile_decode_fatal ==
    /\ pc = "copyClass"
    /\ cur.rest # <<>>
    /\ LET class_file == Head(cur.rest)
           rel_path == strip_prefix(class_file, opt.class_dir).val
           target_path == join(opt.output_dir, rel_path)
           version == read_class_file_version(fs.files, class_file)
       IN  IF ~version.ok
           THEN /\ outcome' = "error"
                /\ pc' = "done"
                /\ UNCHANGED <<fs, jdk_versions, stdout, copied_files, cur>>
           ELSE /\ jdk_versions' =
                    Put(jdk_versions, to_jdk_version(version.val),
                        Append(IF to_jdk_version(version.val)
                                    \in DOMAIN jdk_versions
                               THEN jdk_versions[to_jdk_version(version.val)]
                               ELSE <<>>, class_file))
                /\ stdout' = Append(stdout,
                       [kind |-> "class", source |-> cur.unit[1],
                        class |-> rel_path,
                        size |-> Len(fs.files[class_file]),
                        jdk |-> to_jdk_version(version.val)])
                /\ fs' = fs_copy(create_dir_all(fs, parent(target_path)[1]),
                                 class_file, target_path)
                /\ copied_files' = copied_files + 1
                /\ cur' = [cur EXCEPT !.rest = Tail(@)]
                /\ UNCHANGED <<pc, outcome>>
    /\ UNCHANGED <<arg, ret, java_files, non_java_files, idx, failed,
                   source_to_classes, copied_non_java_files, log>>

\* lines 155-201: one iteration of the loop over the class files of a unit
CopyClassFile ==
    /\ pc = "copyClass"
    /\ cur.rest # <<>>
    /\ LET java_file_name == cur.unit[1]
           class_file == Head(cur.rest)
           rel_path == strip_prefix(class_file, opt.class_dir).val
           target_path == join(opt.output_dir, rel_path)
           made == IF parent(target_path) = None THEN fs
                   ELSE create_dir_all(fs, parent(target_path)[1])
           file_size == Len(fs.files[class_file])
           version == read_class_file_version(fs.files, class_file)
           v == to_jdk_version(version.val)
           jdk_version == IF version.ok THEN v ELSE UnknownVersion
       IN  /\ jdk_versions' =
                IF version.ok
                THEN Put(jdk_versions, v,
                         Append(IF v \in DOMAIN jdk_versions
                                THEN jdk_versions[v] ELSE <<>>, class_file))
                ELSE jdk_versions
           /\ log' = IF version.ok THEN log
                     ELSE Append(log, [level |-> "eprintln",
                                       err |-> version.err])
           /\ stdout' = Append(stdout, [kind |-> "class",
                                        source |-> java_file_name,
                                        class |-> rel_path,
                                        size |-> file_size,
                                        jdk |-> jdk_version])
           /\ fs' = fs_copy(made, class_file, target_path)
           /\ copied_files' = copied_files + 1
           /\ cur' = [cur EXCEPT !.rest = Tail(@)]
    /\ UNCHANGED <<pc, arg, ret, java_files, non_java_files, idx, failed,
                   source_to_classes, copied_non_java_files, outcome>>

Summary_classes_only ==
    /\ pc = "copyClass"
    /\ cur.rest = <<>>
    /\ cur.done = DOMAIN source_to_classes
    /\ stdout' = Append(stdout,
           [kind |-> "summary",
            sources |-> Cardinality(DOMAIN source_to_classes),
            classes |-> copied_files,
            others |-> copied_non_java_files,
            total |-> copied_files])
    /\ log' = Append(log, [level |-> "info",
                            classes |-> copied_files,
                            others |-> copied_non_java_files])
    /\ outcome' = "ok"
    /\ pc' = "done"
    /\ UNCHANGED <<fs, arg, ret, java_files, non_java_files, idx, failed,
                   source_to_classes, jdk_versions, copied_non_java_files,
                   copied_files, cur>>

\* lines 203-226: the summary, the version statistics and the warning
Summary ==
    /\ pc = "copyClass"
    /\ cur.rest = <<>>
    /\ cur.done = DOMAIN source_to_classes
    /\ LET summary ==
               [kind |-> "summary",
                sources |-> Cardinality(DOMAIN source_to_classes),
                classes |-> copied_files,
                others |-> copied_non_java_files,
                total |-> copied_files + copied_non_java_files]
           many == Cardinality(DOMAIN jdk_versions) > 1
           counts == [kind |-> "versions",
                      files |-> [version \in DOMAIN jdk_versions |->
                                    Len(jdk_versions[version])]]
           single == [kind |-> "all",
                      version |-> CHOOSE version \in DOMAIN jdk_versions : TRUE]
       IN  /\ stdout' = stdout \o <<summary>> \o
                (IF many THEN <<counts>>
                 ELSE IF DOMAIN jdk_versions # {} THEN <<single>>
                 ELSE <<>>)
           /\ log' = log \o (IF many THEN <<[level |-> "warn"]>> ELSE <<>>)
                         \o <<[level |-> "info",
                               classes |-> copied_files,
                               others |-> copied_non_java_files]>>
    /\ outcome' = "ok"
    /\ pc' = "done"
    /\ UNCHANGED <<fs, arg, ret, java_files, non_java_files, idx, failed,
                   source_to_classes, jdk_versions, copied_non_java_files,
                   copied_files, cur>>

Next ==
    \/ MainStart
    \/ ResolveStep
    \/ AfterResolve
    \/ CopyNonJava
    \/ StartClassCopy
    \/ NextUnit
    \/ CopyClassFile
    \/ Summary

Spec == Init /\ [][Next]_vars

---------------------------------------------------------------------------
(* Properties of read_class_file_version (SpecDecode)                      *)

\* the bytes of the file read_class_file_version was called on
Called == fs.files[arg]
Returned == pc = "return"

\* the two failures by the names the specification gives them
MalformedArtifact  == Err(ErrReadExact)
InvalidMagicNumber == Err(ErrMagic)

\* C3: on a file of at least 8 bytes that begins CA FE BA BE the call
\* succeeds with minor = byte5 * 256 + byte6 and major = byte7 * 256 + byte8,
\* both in 0..65535, whatever follows the eighth byte; CA FE BA BE 00 00 00
\* 34 gives minor 0 and major 52.
C3_BigEndianVersion ==
    (Returned /\ is_file(fs, arg) /\ Len(Called) >= 8
              /\ SubSeq(Called, 1, 4) = <<202, 254, 186, 190>>)
    => /\ ret.ok
       /\ ret.val.minor = Called[5] * 256 + Called[6]
       /\ ret.val.major = Called[7] * 256 + Called[8]
       /\ ret.val.minor \in 0..65535
       /\ ret.val.major \in 0..65535
       /\ SubSeq(Called, 5, 8) = <<0, 0, 0, 52>>
            => ret.val = [minor |-> 0, major |-> 52]

\* a 9-byte file with minor 3 and major 999 (03 E7) has been decoded
C3_Witness ==
    /\ Returned
    /\ is_file(fs, arg)
    /\ Called = <<202, 254, 186, 190, 0, 3, 3, 231, 255>>
    /\ ret = Ok([major |-> 999, minor |-> 3])

\* C4, as claimed: a file whose first 4 bytes are not CA FE BA BE fails with
\* InvalidMagicNumber, a file shorter than 8 bytes fails with
\* MalformedArtifact, and neither gets a version record.
C4_AsClaimed ==
    (Returned /\ is_file(fs, arg))
    => /\ (Len(Called) >= 4 /\ SubSeq(Called, 1, 4) # Magic)
            => ret = InvalidMagicNumber
       /\ Len(Called) < 8 => ret = MalformedArtifact

\* C4, amended: a file shorter than 8 bytes fails with MalformedArtifact
\* whatever its first bytes are; a file of at least 8 bytes whose first 4
\* bytes are not CA FE BA BE fails with InvalidMagicNumber; neither gets a
\* version record.
C4_ShortThenMagic ==
    (Returned /\ is_file(fs, arg))
    => /\ Len(Called) < 8 => ret = MalformedArtifact
       /\ (Len(Called) >= 8 /\ SubSeq(Called, 1, 4) # Magic)
            => ret = InvalidMagicNumber
       /\ (Len(Called) < 8 \/ SubSeq(Called, 1, 4) # Magic) => ~ret.ok

\* a file of 4 to 7 bytes with a wrong magic number failed as malformed
C4_Witness ==
    /\ Returned
    /\ is_file(fs, arg)
    /\ Len(Called) \in 4..7
    /\ SubSeq(Called, 1, 4) # Magic
    /\ ret = MalformedArtifact

---------------------------------------------------------------------------
(* Properties of to_jdk_version (SpecLabel)                                *)

\* the release label of a major version of the table, 45..65
FixedLabel(major) ==
    IF major <= 48
    THEN <<"J", "D", "K", " ", "1", ".", Digit[major - 43]>>
    ELSE <<"J", "D", "K", " ">> \o Decimal(major - 44)

FixedLabels == {FixedLabel(m) : m \in 45..65}

NumDigits(n) ==
    IF n < 10 THEN 1 ELSE IF n < 100 THEN 2 ELSE IF n < 1000 THEN 3
    ELSE IF n < 10000 THEN 4 ELSE 5

\* the number a string of digits reads as, -1 when a character is no digit
RECURSIVE Value(_)
Value(s) ==
    IF s = <<>> THEN 0
    ELSE LET last == s[Len(s)]
             rest == Value(SubSeq(s, 1, Len(s) - 1))
         IN  IF rest < 0 \/ \A d \in 1..10 : Digit[d] # last THEN -1
             ELSE 10 * rest + (CHOOSE d \in 1..10 : Digit[d] = last) - 1

\* the label holds the decimal digits of n
ContainsDecimal(label, n) ==
    \E i \in 1..Len(label) :
        /\ i + NumDigits(n) - 1 <= Len(label)
        /\ Value(SubSeq(label, i, i + NumDigits(n) - 1)) = n

\* C5: to_jdk_version returns a label for every 16-bit major version: the
\* fixed release label for 45..65 (52 is "JDK 8", 55 is "JDK 11"), and
\* outside 45..65 a label that holds the major version in decimal and is
\* none of the 21 fixed labels.
C5_LabelTotal ==
    Returned =>
        /\ ret \in Seq(STRING) /\ ret # <<>>
        /\ arg.major \in 45..65 => ret = FixedLabel(arg.major)
        /\ arg.major = 52 => ret = <<"J", "D", "K", " ", "8">>
        /\ arg.major = 55 => ret = <<"J", "D", "K", " ", "1", "1">>
        /\ arg.major \notin 45..65 =>
              /\ ContainsDecimal(ret, arg.major)
              /\ ret \notin FixedLabels
              /\ \A m \in 45..65 : ret # to_jdk_version([arg EXCEPT !.major = m])
        /\ Cardinality({to_jdk_version([arg EXCEPT !.major = m]) :
                            m \in 45..65}) = 21

\* the label of major version 999 has been computed
C5_Witness ==
    /\ Returned
    /\ arg.major = 999
    /\ ret = UnknownJdkPrefix \o <<"9", "9", "9", ")">>

---------------------------------------------------------------------------
(* Properties of find_class_files (SpecResolve)                            *)

ends_with(s, suffix) ==
    /\ Len(suffix) <= Len(s)
    /\ SubSeq(s, Len(s) - Len(suffix) + 1, Len(s)) = suffix

\* a name less its last n characters
Chop(name, n) == SubSeq(name, 1, Len(name) - n)

\* the mirrored package directory of a source unit, and the unit's stem
PackageDir(unit) == opt.class_dir \o SubSeq(unit, 1, Len(unit) - 1)
StemOf(unit) == Chop(unit[Len(unit)], Len(JavaExt) + 1)

\* the class files of a unit: the regular files directly in its package
\* directory named S.class or S$....class, S being the unit's stem
ClassFilesOf(f, unit) ==
    { p \in DOMAIN f.files :
        /\ Len(p) = Len(PackageDir(unit)) + 1
        /\ SubSeq(p, 1, Len(p) - 1) = PackageDir(unit)
        /\ ends_with(p[Len(p)], <<".", "c", "l", "a", "s", "s">>)
        /\ LET base == Chop(p[Len(p)], 6) IN
           \/ base = StemOf(unit)
           \/ starts_with(base, StemOf(unit) \o <<"$">>) }

\* C2: find_class_files returns exactly the regular files that are direct
\* children of the unit's package directory, end in .class and are named S
\* or S$..., S being the unit's stem: with A.class, A$1.class, A$B.class and
\* AB.class it returns the first three; a file of a sub-directory or with
\* another extension is never returned.
C2_ExactMatches ==
    Returned =>
        /\ ret.ok
        /\ Range(ret.val) = ClassFilesOf(fs, arg)
        /\ Len(ret.val) = Cardinality(ClassFilesOf(fs, arg))

\* the package of A.java holds A.class, A$1.class, A$B.class and AB.class,
\* and the first three were returned
C2_Witness ==
    /\ Returned
    /\ arg = <<pkg, Name(sA, JavaExt)>>
    /\ {opt.class_dir \o <<pkg, Name(n, ClassExt)>> : n \in {sA, sA1, sAB, sAo}}
          = DOMAIN fs.files
    /\ Range(ret.val) =
          {opt.class_dir \o <<pkg, Name(n, ClassExt)>> : n \in {sA, sA1, sAB}}

\* C9: when the package directory of the unit does not exist,
\* find_class_files returns the empty sequence and no error.
C9_MissingDirIsEmpty ==
    (Returned /\ ~exists(fs, PackageDir(arg))) => ret = Ok(<<>>)

\* the class tree has C.class, but in pkg: for q/C.java, whose package
\* directory q is missing, the empty sequence was returned
C9_Witness ==
    /\ Returned
    /\ arg = <<q, Name(sC, JavaExt)>>
    /\ ~exists(fs, opt.class_dir \o <<q>>)
    /\ exists(fs, opt.class_dir \o <<pkg>>)
    /\ DOMAIN fs.files # {}
    /\ ret = Ok(<<>>)

---------------------------------------------------------------------------
(* Properties of a run of main (Spec)                                      *)

\* the source units of the source tree, relative to opt.source_dir
SourceUnits ==
    { SubSeq(p, 2, Len(p)) : p \in
        { x \in DOMAIN fs.files :
            /\ starts_with(x, opt.source_dir)
            /\ ends_with(x[Len(x)], <<".", "j", "a", "v", "a">>) } }

\* what the run has written below opt.output_dir
OutputFiles == {p \in DOMAIN fs.files : starts_with(p, opt.output_dir)}

Finished == pc = "done"

\* C1: when a source unit has no class file, nothing is ever copied or
\* reported and the run ends in an error, wherever the unit is in the scan
\* order and however many other units have class files; a copy happens only
\* after every source unit was resolved to at least one class file.
C1_AllOrNothing ==
    /\ (\E unit \in SourceUnits : ClassFilesOf(fs, unit) = {})
          => /\ OutputFiles = {}
             /\ stdout = <<>>
             /\ copied_files = 0 /\ copied_non_java_files = 0
             /\ outcome # "ok"
             /\ Finished => outcome = "error"
    /\ (OutputFiles # {} \/ stdout # <<>>)
          => \A unit \in SourceUnits :
                /\ unit \in DOMAIN source_to_classes
                /\ source_to_classes[unit] # <<>>

\* a run with non-Java files has ended in an error, with nothing copied, on
\* a unit without class files that was scanned after a unit that has some
C1_Witness ==
    /\ Finished
    /\ outcome = "error"
    /\ failed
    /\ DOMAIN source_to_classes # {}
    /\ non_java_files # <<>>
    /\ \E unit \in SourceUnits : ClassFilesOf(fs, unit) = {}
    /\ OutputFiles = {}

\* the report lines of the copied class files
ClassRecords == {i \in 1..Len(stdout) : stdout[i].kind = "class"}

\* a header that read_class_file_version cannot decode
Undecodable(bytes) == Len(bytes) < 8 \/ SubSeq(bytes, 1, 4) # Magic

\* C6: in the copy phase a class file whose header cannot be decoded does
\* not abort the run: it is reported with the unknown-version marker, it is
\* copied and counted, it is in no list of the version tally, and the class
\* files after it are processed too.
C6_DecodeFailureNotFatal ==
    /\ \A i \in ClassRecords :
          LET from == opt.class_dir \o stdout[i].class
              to   == opt.output_dir \o stdout[i].class
          IN  Undecodable(fs.files[from])
                => /\ stdout[i].jdk = UnknownVersion
                   /\ to \in DOMAIN fs.files
                   /\ fs.files[to] = fs.files[from]
                   /\ \A v \in DOMAIN jdk_versions :
                         from \notin Range(jdk_versions[v])
    /\ copied_files = Cardinality(ClassRecords)
    /\ pc \in {"copyNonJava", "copyClass"} => outcome = "running"
    /\ (Finished /\ outcome = "error") => (stdout = <<>> /\ OutputFiles = {})
    /\ (Finished /\ outcome = "ok")
          => \A unit \in DOMAIN source_to_classes :
                \A k \in 1..Len(source_to_classes[unit]) :
                   \E i \in ClassRecords :
                      /\ stdout[i].source = unit
                      /\ opt.class_dir \o stdout[i].class
                            = source_to_classes[unit][k]

\* a run has ended well after a truncated class file was reported as of
\* unknown version and copied, and a later class file was decoded
C6_Witness ==
    /\ Finished
    /\ outcome = "ok"
    /\ \E i, j \in ClassRecords :
          /\ i < j
          /\ Len(fs.files[opt.class_dir \o stdout[i].class]) < 8
          /\ stdout[i].jdk = UnknownVersion
          /\ opt.output_dir \o stdout[i].class \in OutputFiles
          /\ stdout[j].jdk # UnknownVersion

\* the class files the run has copied, and the label of one
CopiedArtifacts == {opt.class_dir \o stdout[i].class : i \in ClassRecords}

LabelOf(file) == to_jdk_version(read_class_file_version(fs.files, file).val)

Decoded == {a \in CopiedArtifacts : ~Undecodable(fs.files[a])}

Warned == \E i \in 1..Len(log) : log[i].level = "warn"

\* C7: at the end of a run that went through the copy phase, the warning
\* is logged exactly when the class files that could be decoded have more
\* than one label, the run ends well all the same, and the count printed
\* for a label is the number of copied class files with that label.
C7_AsClaimed ==
    (Finished /\ outcome = "ok")
    => /\ Warned <=> Cardinality({LabelOf(a) : a \in Decoded}) > 1
       /\ Warned =>
            \E i \in 1..Len(stdout) :
               /\ stdout[i].kind = "versions"
               /\ DOMAIN stdout[i].files = {LabelOf(a) : a \in Decoded}
               /\ \A v \in DOMAIN stdout[i].files :
                     stdout[i].files[v]
                        = Cardinality({a \in Decoded : LabelOf(a) = v})

\* the tree of the end-to-end example: pkg/A.java and two non-Java files,
\* pkg/A.class of major version 52 and pkg/A$1.class of major version 55
C8_Scenario ==
    /\ {p \in DOMAIN fs.files : starts_with(p, opt.source_dir)}
          = { opt.source_dir \o <<pkg, Name(sA, JavaExt)>>,
              opt.source_dir \o OtherList[1],
              opt.source_dir \o OtherList[2] }
    /\ {p \in DOMAIN fs.files : starts_with(p, opt.class_dir)}
          = { opt.class_dir \o <<pkg, Name(sA, ClassExt)>>,
              opt.class_dir \o <<pkg, Name(sA1, ClassExt)>> }
    /\ fs.files[opt.class_dir \o <<pkg, Name(sA, ClassExt)>>] = Header(52)
    /\ fs.files[opt.class_dir \o <<pkg, Name(sA1, ClassExt)>>] = Header(55)

\* what the example says of the report: both class files under pkg/A.java,
\* and the warning with "JDK 8: 1" and "JDK 11: 1"
C8_Report ==
    /\ outcome = "ok"
    /\ {<<stdout[i].source, stdout[i].class>> : i \in ClassRecords}
          = { <<<<pkg, Name(sA, JavaExt)>>, <<pkg, Name(sA, ClassExt)>>>>,
              <<<<pkg, Name(sA, JavaExt)>>, <<pkg, Name(sA1, ClassExt)>>>> }
    /\ Cardinality(ClassRecords) = 2
    /\ Warned
    /\ \E i \in 1..Len(stdout) :
          /\ stdout[i].kind = "versions"
          /\ DOMAIN stdout[i].files
                = {<<"J", "D", "K", " ", "8">>, <<"J", "D", "K", " ", "1", "1">>}
          /\ \A v \in DOMAIN stdout[i].files : stdout[i].files[v] = 1

\* the number of files the summary says were copied
TotalCopied ==
    LET i == CHOOSE i \in 1..Len(stdout) : stdout[i].kind = "summary"
    IN  stdout[i].total

\* C8, as claimed: the run of the example copies 3 files in total.
C8_AsClaimed ==
    (C8_Scenario /\ Finished)
    => /\ C8_Report
       /\ TotalCopied = 3
       /\ Cardinality(OutputFiles) = 3

\* C8, amended: the run of the example copies 4 files in total, the two
\* non-Java files and the two class files.
C8_FourFiles ==
    (C8_Scenario /\ Finished)
    => /\ C8_Report
       /\ TotalCopied = 4
       /\ Cardinality(OutputFiles) = 4
       /\ copied_non_java_files = 2 /\ copied_files = 2

\* the run of the example has ended
C8_Witness ==
    /\ C8_Scenario
    /\ Finished
    /\ outcome = "ok"
    /\ Cardinality(OutputFiles) = 4

\* C10: no class file is in the lists of two source units, so that none is
\* reported, counted or copied twice, and the number of class files the
\* summary reports is the number of class files the run copied.
C10_AsClaimed ==
    /\ \A u1, u2 \in DOMAIN source_to_classes :
          u1 # u2 => Range(source_to_classes[u1])
                        \cap Range(source_to_classes[u2]) = {}
    /\ (Finished /\ outcome = "ok")
          => copied_files = Cardinality(CopiedArtifacts)

=============================================================================
